---- MODULE Spec2Model ----
(***************************************************************************)
(* A model of two UI artifacts:                                            *)
(*   - the usePullRequests hook (src/lib/hooks/api/usePullRequests.ts):    *)
(*     page/limit state and the endpoint string used as the useSWR key;    *)
(*   - the WorkspaceSettings page                                          *)
(*     (src/pages/workspaces/[workspaceId]/settings.tsx): the tracked      *)
(*     repos bookkeeping, the modal/table handlers and the asynchronous    *)
(*     updateWorkspace submit handler.                                     *)
(* JavaScript runs handlers to their next await without interleaving, so   *)
(* every action below is one such run: an event handler, or the            *)
(* continuation of updateWorkspace after one of its awaits.                *)
(***************************************************************************)
EXTENDS Integers, Sequences, FiniteSets, TLC

VARIABLES
    page,                   \* usePullRequests: useState(1)
    limit,                  \* usePullRequests: useState(500)
    workspaceName,          \* useState(workspace.name)
    trackedReposModalOpen,  \* useState(false)
    initialTrackedRepos,    \* full names in the data of useGetWorkspaceRepositories
    trackedRepos,           \* useState<Map<string, boolean>>(new Map())
    trackedReposPendingDeletion, \* useState<Set<string>>(new Set())
    consoleErrors,          \* number of console.error calls of onRemoveTrackedRepo
    sub                     \* the invocations of updateWorkspace, in order of submit

vars == <<page, limit, workspaceName, trackedReposModalOpen, initialTrackedRepos,
          trackedRepos, trackedReposPendingDeletion, consoleErrors, sub>>

----------------------------------------------------------------------------
(* Bounds of the model *)

\* pages 0..MaxPage and limits 0..MaxLimit are passed to setPage / setLimit
MaxPage == 12
MaxLimit == 11
\* number of times the form is submitted in one behaviour
MaxSubmits == 1
\* number of remove events that carry no data-repo value
MaxConsoleErrors == 1

----------------------------------------------------------------------------
(* usePullRequests *)

InitialPage == 1
InitialLimit == 500
stars == 1000
baseEndpoint == "prs/list"

\* A JavaScript number: a natural number or NaN.
Num(n) == [isNaN |-> FALSE, val |-> n]
NaN == [isNaN |-> TRUE, val |-> 0]

\* The truthiness of a number in a conditional: 0 and NaN are falsy.
Truthy(n) == ~n.isNaN /\ n.val # 0

DigitChars == <<"0", "1", "2", "3", "4", "5", "6", "7", "8", "9">>

RECURSIVE NatToString(_)
NatToString(n) ==
    IF n < 10 THEN DigitChars[n + 1]
    ELSE NatToString(n \div 10) \o DigitChars[(n % 10) + 1]

\* `${n}` in a template literal
NumberToString(n) == IF n.isNaN THEN "NaN" ELSE NatToString(n.val)

pageQuery(p) == IF Truthy(p) THEN "page=" \o NumberToString(p) ELSE ""
\* variant of limitQuery: the "&" before the segment left out
limitQuery_NoSeparator(l) == IF Truthy(l) THEN "limit=" \o NumberToString(l) ELSE ""
limitQuery(l) == IF Truthy(l) THEN "&limit=" \o NumberToString(l) ELSE ""
starsQuery == IF stars # 0 THEN "&stars=" \o NatToString(stars) ELSE ""

EndpointString(p, l) ==
    baseEndpoint \o "?" \o pageQuery(p) \o limitQuery(l) \o starsQuery

\* the key handed to useSWR in the current render
endpointString == EndpointString(page, limit)

Pages == {Num(n) : n \in 0..MaxPage} \cup {NaN}
Limits == {Num(n) : n \in 0..MaxLimit} \cup {Num(InitialLimit), NaN}

setPage(p) ==
    /\ page' = p
    /\ UNCHANGED <<limit, workspaceName, trackedReposModalOpen, initialTrackedRepos,
                   trackedRepos, trackedReposPendingDeletion, consoleErrors, sub>>

setLimit(l) ==
    /\ limit' = l
    /\ UNCHANGED <<page, workspaceName, trackedReposModalOpen, initialTrackedRepos,
                   trackedRepos, trackedReposPendingDeletion, consoleErrors, sub>>

----------------------------------------------------------------------------
(* WorkspaceSettings: state *)

Repos == {"open-sauced/app", "open-sauced/insights"}
\* event.currentTarget.dataset.repo when the attribute is missing or empty
NoRepo == ""
InitialName == "workspace"
Names == {"renamed"}

EmptyMap == [r \in {} |-> TRUE]

IdleSubmit ==
    [pc |-> "idle", name |-> InitialName, saveRepos |-> {}, deleteRepos |-> {},
     error |-> FALSE, reposDeleteError |-> FALSE, log |-> <<>>]

Init ==
    /\ page = Num(InitialPage)
    /\ limit = Num(InitialLimit)
    /\ workspaceName = InitialName
    /\ trackedReposModalOpen = FALSE
    /\ initialTrackedRepos = {}
    /\ trackedRepos = EmptyMap
    /\ trackedReposPendingDeletion = {}
    /\ consoleErrors = 0
    /\ sub = [i \in 1..MaxSubmits |-> IdleSubmit]

----------------------------------------------------------------------------
(* WorkspaceSettings: values derived in a render *)

\* new Map([...initialTrackedRepos.map((repo) => [repo, true]), ...trackedRepos.entries()]):
\* a later entry overrides an earlier one with the same key.
MapOfEntries(initial, added) ==
    [r \in initial \cup DOMAIN added |-> IF r \in DOMAIN added THEN added[r] ELSE TRUE]

\* variant of pendingTrackedRepos: the forEach loop left out
pendingTrackedRepos_NoDeletionFilter == MapOfEntries(initialTrackedRepos, trackedRepos)

\* the repositories prop of TrackedReposTable: the merged map, from which the
\* forEach loop deletes every key that trackedReposPendingDeletion has
pendingTrackedRepos ==
    LET merged == MapOfEntries(initialTrackedRepos, trackedRepos)
    IN  [r \in {x \in DOMAIN merged : x \notin trackedReposPendingDeletion} |-> merged[r]]

----------------------------------------------------------------------------
(* WorkspaceSettings: data of useGetWorkspaceRepositories *)

\* The hook's data changes when its first load or a later revalidation returns;
\* the server's list is not under the page's control, so any list may arrive.
LoadTrackedRepos(data) ==
    /\ initialTrackedRepos' = data
    /\ UNCHANGED <<page, limit, workspaceName, trackedReposModalOpen, trackedRepos,
                   trackedReposPendingDeletion, consoleErrors, sub>>

----------------------------------------------------------------------------
(* WorkspaceSettings: table and modal handlers *)

onAddRepos ==
    /\ trackedReposModalOpen' = TRUE
    /\ UNCHANGED <<page, limit, workspaceName, initialTrackedRepos, trackedRepos,
                   trackedReposPendingDeletion, consoleErrors, sub>>

onClose ==
    /\ trackedReposModalOpen' = FALSE
    /\ UNCHANGED <<page, limit, workspaceName, initialTrackedRepos, trackedRepos,
                   trackedReposPendingDeletion, consoleErrors, sub>>

onCancel ==
    /\ trackedReposModalOpen' = FALSE
    /\ UNCHANGED <<page, limit, workspaceName, initialTrackedRepos, trackedRepos,
                   trackedReposPendingDeletion, consoleErrors, sub>>

\* the maps the modal can hand over: some repositories, each selected or not
Selections == UNION {[S -> BOOLEAN] : S \in SUBSET Repos}

\* repos.forEach: a selected repository is set to true, an unselected one deleted
ApplySelection(added, repos) ==
    LET selected == {r \in DOMAIN repos : repos[r]}
        unselected == {r \in DOMAIN repos : ~repos[r]}
    IN  [r \in (DOMAIN added \ unselected) \cup selected |->
            IF r \in selected THEN TRUE ELSE added[r]]

\* The modal's buttons exist only while the modal is open.
onAddToTrackingList(repos) ==
    /\ trackedReposModalOpen
    /\ trackedReposModalOpen' = FALSE
    /\ trackedRepos' = ApplySelection(trackedRepos, repos)
    /\ UNCHANGED <<page, limit, workspaceName, initialTrackedRepos,
                   trackedReposPendingDeletion, consoleErrors, sub>>

\* the data-repo values of the rows the table shows, or no value at all
RemoveTargets == DOMAIN pendingTrackedRepos \cup {NoRepo}

\* variant of onRemoveTrackedRepo: a repository that was only added locally is
\* deleted from trackedRepos and not recorded as pending deletion
onRemoveTrackedRepo_KeepsInitialOnly(repo) ==
    \/ /\ repo = NoRepo
       /\ consoleErrors < MaxConsoleErrors
       /\ consoleErrors' = consoleErrors + 1
       /\ UNCHANGED <<page, limit, workspaceName, trackedReposModalOpen,
                      initialTrackedRepos, trackedRepos, trackedReposPendingDeletion, sub>>
    \/ /\ repo # NoRepo
       /\ trackedRepos' = [r \in DOMAIN trackedRepos \ {repo} |-> trackedRepos[r]]
       /\ trackedReposPendingDeletion' =
              IF repo \in DOMAIN trackedRepos
              THEN trackedReposPendingDeletion
              ELSE trackedReposPendingDeletion \cup {repo}
       /\ UNCHANGED <<page, limit, workspaceName, trackedReposModalOpen,
                      initialTrackedRepos, consoleErrors, sub>>

\* if (!repo) { console.error(...); return; }; otherwise the repository is deleted
\* from a copy of trackedRepos and added to a copy of trackedReposPendingDeletion
onRemoveTrackedRepo(repo) ==
    \/ /\ repo = NoRepo
       /\ consoleErrors < MaxConsoleErrors
       /\ consoleErrors' = consoleErrors + 1
       /\ UNCHANGED <<page, limit, workspaceName, trackedReposModalOpen,
                      initialTrackedRepos, trackedRepos, trackedReposPendingDeletion, sub>>
    \/ /\ repo # NoRepo
       /\ trackedRepos' = [r \in DOMAIN trackedRepos \ {repo} |-> trackedRepos[r]]
       /\ trackedReposPendingDeletion' = trackedReposPendingDeletion \cup {repo}
       /\ UNCHANGED <<page, limit, workspaceName, trackedReposModalOpen,
                      initialTrackedRepos, consoleErrors, sub>>

----------------------------------------------------------------------------
(* WorkspaceSettings: updateWorkspace *)

\* The effects of one invocation are recorded in its log, in the order the
\* handler performs them.
Submitted == {i \in 1..MaxSubmits : sub[i].pc # "idle"}

\* The form is submitted: the handler reads the form and calls saveWorkspace with
\* the keys of trackedRepos, then waits for its response. The closure of the
\* render it was created in also holds trackedReposPendingDeletion.
Submit(name) ==
    /\ Cardinality(Submitted) < MaxSubmits
    /\ LET i == Cardinality(Submitted) + 1
       IN  sub' = [sub EXCEPT ![i] =
                [pc |-> "awaitSave", name |-> name,
                 saveRepos |-> DOMAIN trackedRepos,
                 deleteRepos |-> trackedReposPendingDeletion,
                 error |-> FALSE, reposDeleteError |-> FALSE,
                 log |-> <<"saveWorkspace">>]]
    /\ UNCHANGED <<page, limit, workspaceName, trackedReposModalOpen, initialTrackedRepos,
                   trackedRepos, trackedReposPendingDeletion, consoleErrors>>

\* saveWorkspace's response arrives; the handler resumes, calls deleteTrackedRepos
\* with the closure's trackedReposPendingDeletion and waits for its response.
SaveReturns(i, error) ==
    /\ sub[i].pc = "awaitSave"
    /\ sub' = [sub EXCEPT ![i].pc = "awaitDelete",
                          ![i].error = error,
                          ![i].log = Append(@, "deleteTrackedRepos")]
    /\ UNCHANGED <<page, limit, workspaceName, trackedReposModalOpen, initialTrackedRepos,
                   trackedRepos, trackedReposPendingDeletion, consoleErrors>>

\* variant of UpdateFailed: if (error)
UpdateFailed_SaveErrorOnly(error, reposDeleteError) == error

\* if (error || reposDeleteError)
UpdateFailed(error, reposDeleteError) == error \/ reposDeleteError

\* variant of FailureBranch: the two collections are reset on failure too
FailureBranch_ResetsState(i, reposDeleteError) ==
    /\ sub' = [sub EXCEPT ![i].pc = "done",
                          ![i].reposDeleteError = reposDeleteError,
                          ![i].saveRepos = {},
                          ![i].deleteRepos = {},
                          ![i].log = Append(@, "toastDanger")]
    /\ trackedRepos' = EmptyMap
    /\ trackedReposPendingDeletion' = {}
    /\ UNCHANGED <<page, limit, workspaceName, trackedReposModalOpen, initialTrackedRepos,
                   consoleErrors>>

\* toast({ description: `Workspace update failed`, variant: "danger" })
FailureBranch(i, reposDeleteError) ==
    /\ sub' = [sub EXCEPT ![i].pc = "done",
                          ![i].reposDeleteError = reposDeleteError,
                          ![i].saveRepos = {},
                          ![i].deleteRepos = {},
                          ![i].log = Append(@, "toastDanger")]
    /\ UNCHANGED <<page, limit, workspaceName, trackedReposModalOpen, initialTrackedRepos,
                   trackedRepos, trackedReposPendingDeletion, consoleErrors>>

\* variant of SuccessBranch: the two collections are reset before the refetch
SuccessBranch_ResetBeforeRefetch(i, reposDeleteError) ==
    /\ workspaceName' = sub[i].name
    /\ trackedRepos' = EmptyMap
    /\ trackedReposPendingDeletion' = {}
    /\ sub' = [sub EXCEPT ![i].pc = "awaitMutate",
                          ![i].reposDeleteError = reposDeleteError,
                          ![i].saveRepos = {},
                          ![i].deleteRepos = {},
                          ![i].log = @ \o <<"reset", "setWorkspaceName", "dispatchEvent",
                                            "mutateTrackedRepos">>]
    /\ UNCHANGED <<page, limit, trackedReposModalOpen, initialTrackedRepos, consoleErrors>>

\* setWorkspaceName(name), dispatchEvent(WORKSPACE_UPDATED_EVENT), then the call of
\* mutateTrackedRepos, whose result the handler waits for
SuccessBranch(i, reposDeleteError) ==
    /\ workspaceName' = sub[i].name
    /\ sub' = [sub EXCEPT ![i].pc = "awaitMutate",
                          ![i].reposDeleteError = reposDeleteError,
                          ![i].saveRepos = {},
                          ![i].deleteRepos = {},
                          ![i].log = @ \o <<"setWorkspaceName", "dispatchEvent",
                                            "mutateTrackedRepos">>]
    /\ UNCHANGED <<page, limit, trackedReposModalOpen, initialTrackedRepos, trackedRepos,
                   trackedReposPendingDeletion, consoleErrors>>

\* deleteTrackedRepos' response arrives; Promise.all of the two responses, both
\* already there, resolves without another event in between, and the handler
\* branches on the two errors.
DeleteReturns(i, reposDeleteError) ==
    /\ sub[i].pc = "awaitDelete"
    /\ IF UpdateFailed(sub[i].error, reposDeleteError)
       THEN FailureBranch(i, reposDeleteError)
       ELSE SuccessBranch(i, reposDeleteError)

\* mutateTrackedRepos resolves with the server's list; the handler resumes,
\* resets both collections and shows the success toast.
MutateReturns(i, data) ==
    /\ sub[i].pc = "awaitMutate"
    /\ initialTrackedRepos' = data
    /\ trackedReposPendingDeletion' = {}
    /\ trackedRepos' = EmptyMap
    /\ sub' = [sub EXCEPT ![i].pc = "done",
                          ![i].log = @ \o <<"mutated", "reset", "toastSuccess">>]
    /\ UNCHANGED <<page, limit, workspaceName, trackedReposModalOpen, consoleErrors>>

----------------------------------------------------------------------------
(* Specifications *)

Next ==
    \/ \E data \in SUBSET Repos : LoadTrackedRepos(data)
    \/ onAddRepos
    \/ onClose
    \/ onCancel
    \/ \E repos \in Selections : onAddToTrackingList(repos)
    \/ \E repo \in RemoveTargets : onRemoveTrackedRepo(repo)
    \/ \E name \in Names : Submit(name)
    \/ \E i \in 1..MaxSubmits, error \in BOOLEAN : SaveReturns(i, error)
    \/ \E i \in 1..MaxSubmits, reposDeleteError \in BOOLEAN : DeleteReturns(i, reposDeleteError)
    \/ \E i \in 1..MaxSubmits, data \in SUBSET Repos : MutateReturns(i, data)

\* the WorkspaceSettings page
Spec == Init /\ [][Next]_vars

NextPR ==
    \/ \E p \in Pages : setPage(p)
    \/ \E l \in Limits : setLimit(l)

\* the usePullRequests hook
SpecPR == Init /\ [][NextPR]_vars

----------------------------------------------------------------------------
(* Properties of usePullRequests *)

\* seg occurs in s
HasSegment(s, seg) ==
    \E k \in 1..(Len(s) - Len(seg) + 1) : SubSeq(s, k, k + Len(seg) - 1) = seg

FullEndpoint(p, l) ==
    "prs/list?page=" \o NumberToString(p) \o "&limit=" \o NumberToString(l) \o "&stars=1000"

\* C4 as stated: after any setPage / setLimit calls the useSWR key is
\* "prs/list?page=<page>&limit=<limit>&stars=1000" whenever page and limit are
\* both non-zero, the page segment is there iff page is non-zero, the limit
\* segment iff limit is non-zero, and two states with the same key have the same
\* page and limit.
C4_KeyedByNonZeroPageAndLimit ==
    /\ (page # Num(0) /\ limit # Num(0)) => endpointString = FullEndpoint(page, limit)
    /\ HasSegment(endpointString, "page=") <=> page # Num(0)
    /\ HasSegment(endpointString, "&limit=") <=> limit # Num(0)
    /\ \A p \in Pages, l \in Limits :
          EndpointString(p, l) = endpointString => (p = page /\ l = limit)

\* 0 and NaN are both falsy and leave the same (empty) segment
SameSegmentValue(a, b) == a = b \/ (~Truthy(a) /\ ~Truthy(b))

\* C4 amended: the same with "non-zero" read as "neither zero nor NaN": the key is
\* the full string whenever page and limit are both neither 0 nor NaN, a segment
\* is there iff its value is neither 0 nor NaN, and two states with the same key
\* have the same page and limit up to 0 and NaN counting as one value. At the
\* start (page 1, limit 500) the key is "prs/list?page=1&limit=500&stars=1000".
C4_KeyedByTruthyPageAndLimit ==
    /\ (page = Num(1) /\ limit = Num(500)) =>
          endpointString = "prs/list?page=1&limit=500&stars=1000"
    /\ (Truthy(page) /\ Truthy(limit)) => endpointString = FullEndpoint(page, limit)
    /\ HasSegment(endpointString, "page=") <=> Truthy(page)
    /\ HasSegment(endpointString, "&limit=") <=> Truthy(limit)
    /\ \A p \in Pages, l \in Limits :
          EndpointString(p, l) = endpointString =>
              (SameSegmentValue(p, page) /\ SameSegmentValue(l, limit))

\* setPage(NaN) and setLimit(10) have been called: the key has no page segment
C4_Witness ==
    /\ page = NaN
    /\ limit = Num(10)
    /\ endpointString = "prs/list?&limit=10&stars=1000"

----------------------------------------------------------------------------
(* Properties of WorkspaceSettings *)

\* C1: in every reachable state the table's repositories are the initial tracked
\* repos united with the keys of trackedRepos, minus trackedReposPendingDeletion,
\* and every entry maps to true.
C1_TableIsUnionMinusPendingDeletion ==
    /\ DOMAIN pendingTrackedRepos =
          (initialTrackedRepos \cup DOMAIN trackedRepos) \ trackedReposPendingDeletion
    /\ \A r \in DOMAIN pendingTrackedRepos : pendingTrackedRepos[r] = TRUE

\* after a refetch, an add, a remove and a completed submit: one repository comes
\* from the server and is pending deletion, the other was added and is shown
C1_Witness ==
    \E a, b \in Repos :
        /\ a # b
        /\ a \in initialTrackedRepos /\ a \in trackedReposPendingDeletion
        /\ b \notin initialTrackedRepos /\ b \in DOMAIN trackedRepos
        /\ DOMAIN pendingTrackedRepos = {b}
        /\ \E i \in 1..MaxSubmits : sub[i].pc = "done"

SaveInFlight(i) == sub[i].pc = "awaitSave"
DeleteInFlight(i) == sub[i].pc = "awaitDelete"
DeleteIssued(i) == \E k \in 1..Len(sub[i].log) : sub[i].log[k] = "deleteTrackedRepos"

\* C2: deleteTrackedRepos is issued without waiting for saveWorkspace's response:
\* whenever an invocation's saveWorkspace request is in flight, its
\* deleteTrackedRepos request has been issued as well.
C2_DeleteIssuedWithoutWaitingForSave ==
    \A i \in 1..MaxSubmits : SaveInFlight(i) => DeleteIssued(i)

\* What the handler does instead: the two requests of an invocation are never in
\* flight together, the second is issued when the first has returned.
RequestsAreSequential ==
    \A i \in 1..MaxSubmits :
        /\ ~(SaveInFlight(i) /\ DeleteInFlight(i))
        /\ DeleteIssued(i) => sub[i].pc \notin {"idle", "awaitSave"}

IsToast(e) == e \in {"toastDanger", "toastSuccess"}
Toasts(i) == SelectSeq(sub[i].log, IsToast)

\* C3: an invocation never shows more than one toast, and once it has finished it
\* has shown exactly one: the danger toast iff saveWorkspace or deleteTrackedRepos
\* returned an error, the success toast iff neither did.
C3_ExactlyOneToast ==
    \A i \in 1..MaxSubmits :
        /\ Len(Toasts(i)) <= 1
        /\ sub[i].pc = "done" =>
              /\ Len(Toasts(i)) = 1
              /\ Toasts(i)[1] = "toastDanger" <=> (sub[i].error \/ sub[i].reposDeleteError)
              /\ Toasts(i)[1] = "toastSuccess" <=> (~sub[i].error /\ ~sub[i].reposDeleteError)

\* a submit whose saveWorkspace succeeded and whose deleteTrackedRepos failed
C3_Witness ==
    \E i \in 1..MaxSubmits :
        /\ sub[i].pc = "done"
        /\ ~sub[i].error /\ sub[i].reposDeleteError
        /\ Toasts(i) = <<"toastDanger">>

InLog(i, e) == \E k \in 1..Len(sub[i].log) : sub[i].log[k] = e

\* C5: the step in which a failed submit finishes changes neither trackedRepos nor
\* trackedReposPendingDeletion nor workspaceName nor the fetched list, and the
\* invocation has dispatched no event and started no refetch.
C5_FailedSubmitLeavesState ==
    [][\A i \in 1..MaxSubmits :
          (sub[i].pc # "done" /\ sub'[i].pc = "done"
              /\ (sub'[i].error \/ sub'[i].reposDeleteError))
          => /\ UNCHANGED <<trackedRepos, trackedReposPendingDeletion, workspaceName,
                            initialTrackedRepos>>
             /\ \A k \in 1..Len(sub'[i].log) :
                   sub'[i].log[k] \notin {"setWorkspaceName", "dispatchEvent",
                                          "mutateTrackedRepos", "mutated", "reset"}]_vars

\* a failed submit has finished and both collections still hold entries
C5_Witness ==
    \E i \in 1..MaxSubmits :
        /\ sub[i].pc = "done"
        /\ sub[i].error
        /\ trackedRepos # EmptyMap
        /\ trackedReposPendingDeletion # {}
        /\ workspaceName = InitialName

SuccessOrder ==
    <<"saveWorkspace", "deleteTrackedRepos", "setWorkspaceName", "dispatchEvent",
      "mutateTrackedRepos", "mutated", "reset", "toastSuccess">>

RefetchCompletes(i) == sub[i].pc = "awaitMutate" /\ sub'[i].pc = "done"

\* C6: when neither request returned an error, the step that sees both responses
\* sets workspaceName to the submitted name, dispatches the event and starts the
\* refetch without touching the two collections; the step in which the refetch
\* completes empties both and ends with the success toast; and no step of a
\* submit empties or shrinks the collections other than that one.
C6_SuccessOrder ==
    [][/\ \A i \in 1..MaxSubmits :
            /\ (sub[i].pc = "awaitDelete" /\ sub'[i].pc # "awaitDelete"
                    /\ ~sub'[i].error /\ ~sub'[i].reposDeleteError)
               => /\ sub'[i].pc = "awaitMutate"
                  /\ workspaceName' = sub[i].name
                  /\ sub'[i].log = sub[i].log \o
                        <<"setWorkspaceName", "dispatchEvent", "mutateTrackedRepos">>
                  /\ UNCHANGED <<trackedRepos, trackedReposPendingDeletion>>
            /\ RefetchCompletes(i)
               => /\ trackedReposPendingDeletion' = {}
                  /\ trackedRepos' = EmptyMap
                  /\ sub'[i].log = SuccessOrder
       /\ ((trackedReposPendingDeletion \ trackedReposPendingDeletion' # {})
              \/ (sub' # sub /\ trackedRepos' # trackedRepos))
          => \E j \in 1..MaxSubmits : RefetchCompletes(j)]_vars

\* a successful submit has finished: the name is the submitted one and both
\* collections are empty
C6_Witness ==
    \E i \in 1..MaxSubmits :
        /\ sub[i].pc = "done"
        /\ sub[i].log = SuccessOrder
        /\ workspaceName = sub[i].name
        /\ workspaceName # InitialName
        /\ trackedRepos = EmptyMap
        /\ trackedReposPendingDeletion = {}

\* C7: a remove event for repository r takes r out of trackedRepos, puts it in
\* trackedReposPendingDeletion and leaves it out of the table; a repository in
\* trackedReposPendingDeletion stays there and stays out of the table in every
\* step but the one in which a successful submit's refetch completes; a remove
\* event without a data-repo value changes neither collection.
C7_RemovedStaysPendingDeletion ==
    [][/\ \A r \in Repos :
            onRemoveTrackedRepo(r)
            => /\ r \notin DOMAIN trackedRepos'
               /\ r \in trackedReposPendingDeletion'
               /\ r \notin DOMAIN pendingTrackedRepos'
       /\ \A r \in trackedReposPendingDeletion :
            \/ r \in trackedReposPendingDeletion' /\ r \notin DOMAIN pendingTrackedRepos'
            \/ \E i \in 1..MaxSubmits : RefetchCompletes(i)
       /\ onRemoveTrackedRepo(NoRepo)
            => UNCHANGED <<trackedRepos, trackedReposPendingDeletion>>]_vars

\* a repository of the server's list was removed, then added again from the modal,
\* a submit has failed and a remove event without data-repo was seen: the
\* repository is still pending deletion and not in the table
C7_Witness ==
    \E r \in Repos :
        /\ r \in initialTrackedRepos
        /\ r \in trackedReposPendingDeletion
        /\ r \in DOMAIN trackedRepos
        /\ r \notin DOMAIN pendingTrackedRepos
        /\ consoleErrors > 0
        /\ \E i \in 1..MaxSubmits : sub[i].pc = "done" /\ sub[i].error

\* C8: the keys of trackedRepos and trackedReposPendingDeletion are disjoint in
\* every reachable state, and no submit sends a repository both to saveWorkspace
\* and to deleteTrackedRepos.
C8_AddedAndPendingDeletionDisjoint ==
    /\ DOMAIN trackedRepos \cap trackedReposPendingDeletion = {}
    /\ \A i \in 1..MaxSubmits :
          DeleteInFlight(i) => sub[i].saveRepos \cap sub[i].deleteRepos = {}

====
